---- MODULE Spec2Model ----
(***************************************************************************)
(* Model of mcsim/expt_ctrl/set_dmd_sim.py: the channel/mode catalog       *)
(* `channel_map` built at module import, validate_channel_map,             *)
(* get_dmd_sequence and program_dmd_seq.                                   *)
(*                                                                         *)
(* A 1-D numpy integer array is a sequence of integers (0-based index k of *)
(* the array is position k+1 of the sequence).  A python dict is a         *)
(* function whose DOMAIN is the set of keys.  A python exception is a      *)
(* record [exc, at] held in the variable err.                              *)
(***************************************************************************)
EXTENDS Integers, Sequences, FiniteSets, TLC

VARIABLES
    channel_map,            \* module global: channel -> mode -> pattern set
    import_pc,              \* position in the module-level statements 50-63
    pc,                     \* position of the running program_dmd_seq call
    channels,               \* get_dmd_sequence locals, after normalisation
    modes,
    mode_pattern_indices,
    nrepeats,
    ndarkframes,
    blank,
    pic_inds,               \* list of per-channel picture index arrays
    bit_inds,               \* list of per-channel bit index arrays
    ret_pic,                \* pic_inds returned by get_dmd_sequence (flat)
    ret_bit,                \* bit_inds returned by get_dmd_sequence (flat)
    err,                    \* the exception raised by the call, if any
    dmd_log,                \* operations issued on the dmd handle, in order
    cm,                     \* argument of validate_channel_map
    valid                   \* return value of validate_channel_map

vars == <<channel_map, import_pc, pc, channels, modes, mode_pattern_indices,
          nrepeats, ndarkframes, blank, pic_inds, bit_inds, ret_pic, ret_bit,
          err, dmd_log, cm, valid>>

\* ------------------------------------------------------------------ bounds
MaxChannels == 2
MaxRepeat == 2
MaxDark == 2
MaxArrLen == 2

\* ------------------------------------------------------- numpy primitives
\* np.zeros(n, dtype=int)
Zeros(n) == [i \in 1..n |-> 0]

\* np.ones(n, dtype=int)
Ones(n) == [i \in 1..n |-> 1]

\* np.arange(a, b, dtype=int)
Arange(a, b) == [i \in 1..(b - a) |-> a + i - 1]

\* dict.update({k: v})
DictUpdate(d, k, v) == [x \in (DOMAIN d) \cup {k} |-> IF x = k THEN v ELSE d[x]]

PatternSet(p, b) == [picture_indices |-> p, bit_indices |-> b]

\* --------------------------------------------------- catalog construction
\* the dict literal of lines 34-40
BaseChannelMap ==
    [c \in {"off", "on", "blue", "red", "green", "odt"} |->
        [m \in {"default"} |->
            CASE c = "off"   -> PatternSet(<<1>>, <<4>>)
              [] c = "on"    -> PatternSet(<<1>>, <<3>>)
              [] c = "blue"  -> PatternSet(Zeros(9), Arange(0, 9))
              [] c = "red"   -> PatternSet(Zeros(9), Arange(9, 18))
              [] c = "green" -> PatternSet(Zeros(6) \o Ones(3),
                                           Arange(18, 24) \o Arange(0, 3))
              [] c = "odt"   -> PatternSet(Ones(11), Arange(7, 18))]]

on_mode(cmap) == cmap["on"]["default"]
off_mode(cmap) == cmap["off"]["default"]
on_affine_mode == PatternSet(<<1>>, <<5>>)
off_affine_mode == PatternSet(<<1>>, <<6>>)

\* the order in which the two module-level loops visit the channels
ImportOrder == <<"red", "blue", "green", "odt">>

\* body of the loop of lines 50-55 for channel m
UpdateNonInverted(cmap, m) ==
    [cmap EXCEPT ![m] =
        DictUpdate(DictUpdate(DictUpdate(DictUpdate(DictUpdate(@,
            "off", off_mode(cmap)),
            "on", on_mode(cmap)),
            "widefield", on_mode(cmap)),
            "affine", on_affine_mode),
            "sim", cmap[m]["default"])]

\* the inverted loop with "widefield" taken from the non-inverted loop
UpdateInverted_WidefieldOn(cmap, m) ==
    [cmap EXCEPT ![m] =
        DictUpdate(DictUpdate(DictUpdate(DictUpdate(DictUpdate(@,
            "off", on_mode(cmap)),
            "on", off_mode(cmap)),
            "widefield", on_mode(cmap)),
            "affine", off_affine_mode),
            "sim", cmap[m]["default"])]

\* body of the loop of lines 58-63 for channel m
UpdateInverted(cmap, m) ==
    [cmap EXCEPT ![m] =
        DictUpdate(DictUpdate(DictUpdate(DictUpdate(DictUpdate(@,
            "off", on_mode(cmap)),
            "on", off_mode(cmap)),
            "widefield", off_mode(cmap)),
            "affine", off_affine_mode),
            "sim", cmap[m]["default"])]

NoError == [exc |-> "none", at |-> "none"]
Raise(e, where) == [exc |-> e, at |-> where]

\* ------------------------------------------------ python / numpy semantics
None == <<>>
Some(x) == <<x>>

\* python list repetition: l * n (empty for n <= 0)
RECURSIVE ListTimes(_, _)
ListTimes(l, n) == IF n <= 0 THEN <<>> ELSE l \o ListTimes(l, n - 1)

\* np.hstack(arrs) raises ValueError on an empty list of arrays
NpHstackOK(arrs) == Len(arrs) > 0

\* np.hstack joining the arrays last to first
RECURSIVE NpHstack_Reversed(_)
NpHstack_Reversed(arrs) ==
    IF Len(arrs) = 0 THEN <<>> ELSE NpHstack_Reversed(Tail(arrs)) \o Head(arrs)

RECURSIVE NpHstack(_)
NpHstack(arrs) == IF Len(arrs) = 0 THEN <<>> ELSE Head(arrs) \o NpHstack(Tail(arrs))

\* arr[ind] with an integer index array: every index must lie in [-n, n),
\* a negative index k addresses element n + k
NpIndexOK(arr, ind) == \A j \in 1..Len(ind) : ind[j] \in (0 - Len(arr))..(Len(arr) - 1)

NpIndex(arr, ind) ==
    [j \in 1..Len(ind) |-> arr[(IF ind[j] < 0 THEN ind[j] + Len(arr) ELSE ind[j]) + 1]]

\* a * b on 1-D arrays: shapes must be equal or one of them of length 1
NpMulOK(a, b) == Len(a) = Len(b) \/ Len(a) = 1 \/ Len(b) = 1

NpMul(a, b) ==
    IF Len(a) = Len(b) THEN [i \in 1..Len(a) |-> a[i] * b[i]]
    ELSE IF Len(a) = 1 THEN [i \in 1..Len(b) |-> a[1] * b[i]]
    ELSE [i \in 1..Len(a) |-> a[i] * b[1]]

\* number of positions addressed by a[start::2]
StridedCount(a, start) == IF Len(a) <= start THEN 0 ELSE (Len(a) - start + 1) \div 2

\* a[start::2] = v : v is broadcast when of length 1, else lengths must agree
StridedSetOK(a, start, v) == Len(v) = 1 \/ Len(v) = StridedCount(a, start)

StridedSet(a, start, v) ==
    [p \in 1..Len(a) |->
        IF p - 1 >= start /\ (p - 1 - start) % 2 = 0
        THEN (IF Len(v) = 1 THEN v[1] ELSE v[((p - 1 - start) \div 2) + 1])
        ELSE a[p]]

\* ------------------------------------------------------- get_dmd_sequence
\* x * nmodes when len(x) == 1 and nmodes > 1 (lines 195, 214, 232, 245)
Broadcast(x, nmodes) ==
    IF Len(x) = 1 /\ nmodes > 1 THEN [i \in 1..nmodes |-> x[1]] ELSE x

\* channel_map[c][m] does not raise KeyError
KnownMode(cmap, c, m) == c \in DOMAIN cmap /\ m \in DOMAIN cmap[c]

\* lines 202-206: the default of mode_pattern_indices
DefaultPatternIndices(cmap, chs, ms) ==
    [i \in 1..Len(chs) |-> Arange(0, Len(cmap[chs[i]][ms[i]].picture_indices))]

\* lines 179-249: argument checks and broadcasting.  a_idx and a_nrepeats are
\* None or Some(list); a str / int / bool argument is the singleton list the
\* isinstance branches turn it into.
Normalize(cmap, a_modes, a_channels, a_nrepeats, a_blank, a_idx) ==
    LET nmodes == Len(a_channels)
        ms     == Broadcast(a_modes, nmodes)
        idx    == IF a_idx = None
                  THEN DefaultPatternIndices(cmap, a_channels, ms)
                  ELSE Broadcast(a_idx[1], nmodes)
        reps   == Broadcast(a_nrepeats[1], nmodes)
        bl     == Broadcast(a_blank, nmodes)
        fail(e, where) == [err |-> Raise(e, where), modes |-> <<>>,
                           mode_pattern_indices |-> <<>>, nrepeats |-> <<>>,
                           blank |-> <<>>]
    IN  IF Len(ms) # nmodes THEN fail("ValueError", "modes")
        ELSE IF a_idx = None
                /\ \E i \in 1..nmodes : ~KnownMode(cmap, a_channels[i], ms[i])
        THEN fail("KeyError", "mode_pattern_indices")
        ELSE IF Len(idx) # nmodes THEN fail("ValueError", "mode_pattern_indices")
        ELSE IF a_nrepeats = None THEN fail("ValueError", "nrepeats")
        ELSE IF Len(reps) # nmodes THEN fail("ValueError", "nrepeats")
        ELSE IF Len(bl) # nmodes THEN fail("ValueError", "blank")
        ELSE [err |-> NoError, modes |-> ms, mode_pattern_indices |-> idx,
              nrepeats |-> reps, blank |-> bl]

\* lines 256-263 for one array of the pattern set: copy, select, repeat
SelectRepeatOK(arr, ind, nreps) ==
    NpIndexOK(arr, ind) /\ NpHstackOK(ListTimes(<<NpIndex(arr, ind)>>, nreps))

SelectRepeat(arr, ind, nreps) == NpHstack(ListTimes(<<NpIndex(arr, ind)>>, nreps))

\* lines 274-275 for one array: off * ones(ndarkframes) in front of arr
DarkPrefixOK(off, d, arr) == NpMulOK(off, Ones(d))

\* the dark frames concatenated behind the channel's sequence
DarkPrefix_Appended(off, d, arr) == arr \o NpMul(off, Ones(d))

DarkPrefix(off, d, arr) == NpMul(off, Ones(d)) \o arr

\* lines 284-286 / 288-290 for one array
InterleaveOK(arr, off) ==
    /\ StridedSetOK(Zeros(2 * Len(arr)), 0, arr)
    /\ StridedSetOK(Zeros(2 * Len(arr)), 1, off)

\* the two strided assignments with their offsets exchanged
Interleave_OffFirst(arr, off) ==
    StridedSet(StridedSet(Zeros(2 * Len(arr)), 1, arr), 0, off)

Interleave(arr, off) == StridedSet(StridedSet(Zeros(2 * Len(arr)), 0, arr), 1, off)

\* ------------------------------------------------- validate_channel_map
\* lines 142-164.  An entry of cm[ch][m] is a dict from a subset of
\* {"picture_indices", "bit_indices"} to a value [ndarray, ndim, len].
ArrayOK(v) == v.ndarray /\ v.ndim = 1

ModeOK(md) ==
    /\ "picture_indices" \in DOMAIN md
    /\ ArrayOK(md["picture_indices"])
    /\ "bit_indices" \in DOMAIN md
    /\ ArrayOK(md["bit_indices"])

validate_channel_map(c) ==
    \A ch \in DOMAIN c :
        /\ "default" \in DOMAIN c[ch]
        /\ \A m \in DOMAIN c[ch] : ModeOK(c[ch][m])

\* ----------------------------------------------------------- the requests
SeqsUpTo(S, n) == UNION {[1..k -> S] : k \in 0..n}
Singletons(S) == {<<x>> : x \in S}

RequestChannels == {"on", "blue", "green"}
ChannelArgs == SeqsUpTo(RequestChannels, MaxChannels)
ModeArgs == {<<>>, <<"default", "widefield">>}
                \cup Singletons({"default", "off", "widefield", "bogus"})
IndexChoices == {<<0>>, <<0 - 1>>, <<2, 0, 0>>, <<9>>}
IndexArgs == {None, Some(<<>>), Some(<<(<<1>>), (<<0, 1>>)>>)}
                \cup {Some(<<i>>) : i \in IndexChoices}
RepeatArgs == {None, Some(<<>>), Some(<<1, 2>>)}
                \cup {Some(<<r>>) : r \in 0..MaxRepeat}
BlankArgs == {<<>>, <<TRUE>>, <<FALSE>>, <<TRUE, FALSE>>}

\* ------------------------------------------------------------ the actions
IdleLocals ==
    /\ channels = <<>> /\ modes = <<>> /\ mode_pattern_indices = <<>>
    /\ nrepeats = <<>> /\ ndarkframes = 0 /\ blank = <<>>
    /\ pic_inds = <<>> /\ bit_inds = <<>> /\ ret_pic = <<>> /\ ret_bit = <<>>
    /\ err = NoError /\ dmd_log = <<>>

Init ==
    /\ channel_map = BaseChannelMap
    /\ import_pc = 0
    /\ pc = "idle"
    /\ IdleLocals
    /\ cm = <<>>
    /\ valid = None

Imported == import_pc = Len(ImportOrder)

\* one iteration of the loop of lines 50-55
ImportNonInverted ==
    /\ import_pc \in {0, 1}
    /\ channel_map' = UpdateNonInverted(channel_map, ImportOrder[import_pc + 1])
    /\ import_pc' = import_pc + 1
    /\ UNCHANGED <<pc, channels, modes, mode_pattern_indices, nrepeats,
                   ndarkframes, blank, pic_inds, bit_inds, ret_pic, ret_bit,
                   err, dmd_log, cm, valid>>

\* one iteration of the loop of lines 58-63
ImportInverted ==
    /\ import_pc \in {2, 3}
    /\ channel_map' = UpdateInverted(channel_map, ImportOrder[import_pc + 1])
    /\ import_pc' = import_pc + 1
    /\ UNCHANGED <<pc, channels, modes, mode_pattern_indices, nrepeats,
                   ndarkframes, blank, pic_inds, bit_inds, ret_pic, ret_bit,
                   err, dmd_log, cm, valid>>

\* program_dmd_seq is called (line 318) and get_dmd_sequence runs its
\* argument checks (lines 179-249)
Call ==
    /\ Imported /\ pc = "idle"
    /\ \E a_channels \in ChannelArgs, a_modes \in ModeArgs, a_idx \in IndexArgs,
          a_nrepeats \in RepeatArgs, a_dark \in 0..MaxDark, a_blank \in BlankArgs :
          LET n == Normalize(channel_map, a_modes, a_channels, a_nrepeats,
                             a_blank, a_idx)
          IN  /\ channels' = a_channels
              /\ modes' = n.modes
              /\ mode_pattern_indices' = n.mode_pattern_indices
              /\ nrepeats' = n.nrepeats
              /\ blank' = n.blank
              /\ err' = n.err
              /\ ndarkframes' = IF n.err = NoError THEN a_dark ELSE 0
              /\ pc' = IF n.err = NoError THEN "select" ELSE "error"
    /\ UNCHANGED <<channel_map, import_pc, pic_inds, bit_inds, ret_pic, ret_bit,
                   dmd_log, cm, valid>>

\* one iteration of the loop of lines 254-266, for channel Len(pic_inds) + 1
SelectChannel ==
    /\ pc = "select" /\ Len(pic_inds) < Len(channels)
    /\ LET ii   == Len(pic_inds) + 1
           c    == channels[ii]
           m    == modes[ii]
           ind  == mode_pattern_indices[ii]
           nreps == nrepeats[ii]
       IN  IF ~KnownMode(channel_map, c, m)
           THEN /\ pc' = "error" /\ err' = Raise("KeyError", "lookup")
                /\ UNCHANGED <<pic_inds, bit_inds>>
           ELSE LET ps == channel_map[c][m] IN
                IF ~NpIndexOK(ps.picture_indices, ind) \/ ~NpIndexOK(ps.bit_indices, ind)
                THEN /\ pc' = "error" /\ err' = Raise("IndexError", "select")
                     /\ UNCHANGED <<pic_inds, bit_inds>>
                ELSE IF ~SelectRepeatOK(ps.picture_indices, ind, nreps)
                        \/ ~SelectRepeatOK(ps.bit_indices, ind, nreps)
                THEN /\ pc' = "error" /\ err' = Raise("ValueError", "repeat")
                     /\ UNCHANGED <<pic_inds, bit_inds>>
                ELSE /\ pic_inds' = Append(pic_inds, SelectRepeat(ps.picture_indices, ind, nreps))
                     /\ bit_inds' = Append(bit_inds, SelectRepeat(ps.bit_indices, ind, nreps))
                     /\ UNCHANGED <<pc, err>>
    /\ UNCHANGED <<channel_map, import_pc, channels, modes, mode_pattern_indices,
                   nrepeats, ndarkframes, blank, ret_pic, ret_bit, dmd_log, cm, valid>>

\* the loop of lines 254-266 is exhausted
SelectDone ==
    /\ pc = "select" /\ Len(pic_inds) = Len(channels)
    /\ pc' = "dark"
    /\ UNCHANGED <<channel_map, import_pc, channels, modes, mode_pattern_indices,
                   nrepeats, ndarkframes, blank, pic_inds, bit_inds, ret_pic,
                   ret_bit, err, dmd_log, cm, valid>>

HasOff(cmap, c) == "off" \in DOMAIN cmap[c]

\* lines 268-275
InsertDarkFrames ==
    /\ pc = "dark"
    /\ LET nmodes == Len(channels)
           off(ii) == channel_map[channels[ii]]["off"]
       IN  IF ndarkframes = 0
           THEN pc' = "blank" /\ UNCHANGED <<pic_inds, bit_inds, err>>
           ELSE IF \E ii \in 1..nmodes : ~HasOff(channel_map, channels[ii])
           THEN /\ pc' = "error" /\ err' = Raise("KeyError", "dark")
                /\ UNCHANGED <<pic_inds, bit_inds>>
           ELSE IF \E ii \in 1..nmodes :
                      \/ ~DarkPrefixOK(off(ii).picture_indices, ndarkframes, pic_inds[ii])
                      \/ ~DarkPrefixOK(off(ii).bit_indices, ndarkframes, bit_inds[ii])
           THEN /\ pc' = "error" /\ err' = Raise("ValueError", "dark")
                /\ UNCHANGED <<pic_inds, bit_inds>>
           ELSE /\ pic_inds' = [ii \in 1..nmodes |->
                        DarkPrefix(off(ii).picture_indices, ndarkframes, pic_inds[ii])]
                /\ bit_inds' = [ii \in 1..nmodes |->
                        DarkPrefix(off(ii).bit_indices, ndarkframes, bit_inds[ii])]
                /\ pc' = "blank" /\ UNCHANGED err
    /\ UNCHANGED <<channel_map, import_pc, channels, modes, mode_pattern_indices,
                   nrepeats, ndarkframes, blank, ret_pic, ret_bit, dmd_log, cm, valid>>

\* lines 277-293
InsertBlankFrames ==
    /\ pc = "blank"
    /\ LET nmodes == Len(channels)
           off(ii) == channel_map[channels[ii]]["off"]
       IN  IF \E ii \in 1..nmodes : blank[ii] /\ ~HasOff(channel_map, channels[ii])
           THEN /\ pc' = "error" /\ err' = Raise("KeyError", "blank")
                /\ UNCHANGED <<pic_inds, bit_inds>>
           ELSE IF \E ii \in 1..nmodes :
                      /\ blank[ii]
                      /\ \/ ~InterleaveOK(pic_inds[ii], off(ii).picture_indices)
                         \/ ~InterleaveOK(bit_inds[ii], off(ii).bit_indices)
           THEN /\ pc' = "error" /\ err' = Raise("ValueError", "blank")
                /\ UNCHANGED <<pic_inds, bit_inds>>
           ELSE /\ pic_inds' = [ii \in 1..nmodes |->
                        IF blank[ii]
                        THEN Interleave(pic_inds[ii], off(ii).picture_indices)
                        ELSE pic_inds[ii]]
                /\ bit_inds' = [ii \in 1..nmodes |->
                        IF blank[ii]
                        THEN Interleave(bit_inds[ii], off(ii).bit_indices)
                        ELSE bit_inds[ii]]
                /\ pc' = "hstack" /\ UNCHANGED err
    /\ UNCHANGED <<channel_map, import_pc, channels, modes, mode_pattern_indices,
                   nrepeats, ndarkframes, blank, ret_pic, ret_bit, dmd_log, cm, valid>>

\* lines 295-298, and the assignment of line 318
StackAndReturn ==
    /\ pc = "hstack"
    /\ IF ~NpHstackOK(pic_inds) \/ ~NpHstackOK(bit_inds)
       THEN /\ pc' = "error" /\ err' = Raise("ValueError", "hstack")
            /\ UNCHANGED <<pic_inds, bit_inds, ret_pic, ret_bit>>
       ELSE /\ ret_pic' = NpHstack(pic_inds)
            /\ ret_bit' = NpHstack(bit_inds)
            /\ pic_inds' = <<>> /\ bit_inds' = <<>>
            /\ pc' = "stop" /\ UNCHANGED err
    /\ UNCHANGED <<channel_map, import_pc, channels, modes, mode_pattern_indices,
                   nrepeats, ndarkframes, blank, dmd_log, cm, valid>>

DmdFrame == <<channel_map, import_pc, channels, modes, mode_pattern_indices,
              nrepeats, ndarkframes, blank, pic_inds, bit_inds, ret_pic, ret_bit,
              err, cm, valid>>

\* line 324
StartStopSequence ==
    /\ pc = "stop"
    /\ dmd_log' = Append(dmd_log, "start_stop_sequence")
    /\ pc' = "trig1"
    /\ UNCHANGED DmdFrame

\* line 327
GetTriggerIn1 ==
    /\ pc = "trig1"
    /\ dmd_log' = Append(dmd_log, "get_trigger_in1")
    /\ pc' = "trig2"
    /\ UNCHANGED DmdFrame

\* line 331 live: the trigger input is set before it is read
GetTriggerIn2_SetsTrigger ==
    /\ pc = "trig2"
    /\ dmd_log' = dmd_log \o <<"set_trigger_in2", "get_trigger_in2">>
    /\ pc' = "upload"
    /\ UNCHANGED DmdFrame

\* lines 331-332 (line 331 is commented out)
GetTriggerIn2 ==
    /\ pc = "trig2"
    /\ dmd_log' = Append(dmd_log, "get_trigger_in2")
    /\ pc' = "upload"
    /\ UNCHANGED DmdFrame

\* lines 335-346
SetPatternSequence ==
    /\ pc = "upload"
    /\ dmd_log' = Append(dmd_log, "set_pattern_sequence")
    /\ pc' = "done"
    /\ UNCHANGED DmdFrame

\* the call has returned or raised; the caller may call again
Return ==
    /\ pc \in {"done", "error"}
    /\ pc' = "idle"
    /\ channels' = <<>> /\ modes' = <<>> /\ mode_pattern_indices' = <<>>
    /\ nrepeats' = <<>> /\ ndarkframes' = 0 /\ blank' = <<>>
    /\ pic_inds' = <<>> /\ bit_inds' = <<>> /\ ret_pic' = <<>> /\ ret_bit' = <<>>
    /\ err' = NoError /\ dmd_log' = <<>>
    /\ UNCHANGED <<channel_map, import_pc, cm, valid>>

Next ==
    \/ ImportNonInverted
    \/ ImportInverted
    \/ Call
    \/ SelectChannel
    \/ SelectDone
    \/ InsertDarkFrames
    \/ InsertBlankFrames
    \/ StackAndReturn
    \/ StartStopSequence
    \/ GetTriggerIn1
    \/ GetTriggerIn2
    \/ SetPatternSequence
    \/ Return

Spec == Init /\ [][Next]_vars

\* ------------------------------------- validate_channel_map on any catalog
ArrayValues ==
    {[ndarray |-> TRUE, ndim |-> 1, len |-> n] : n \in 1..MaxArrLen}
        \cup {[ndarray |-> TRUE, ndim |-> 2, len |-> 1],
              [ndarray |-> FALSE, ndim |-> 1, len |-> 1]}

Dicts(K, V) == UNION {[D -> V] : D \in SUBSET K}

ModeDicts == Dicts({"picture_indices", "bit_indices"}, ArrayValues)

Catalogs ==
    {[ch \in {"blue"} |-> d] : d \in Dicts({"default", "sim"}, ModeDicts)}
        \cup {[ch \in {"blue", "red"} |->
                  IF ch = "blue" THEN d ELSE [m \in {"default"} |-> e]] :
                  d \in Dicts({"default", "sim"}, ModeDicts), e \in ModeDicts}

InitValidate ==
    /\ channel_map = BaseChannelMap
    /\ import_pc = 0
    /\ pc = "idle"
    /\ IdleLocals
    /\ cm \in Catalogs
    /\ valid = None

\* validate_channel_map(cm) is called and returns
Validate ==
    /\ valid = None
    /\ valid' = Some(validate_channel_map(cm))
    /\ UNCHANGED <<channel_map, import_pc, pc, channels, modes, mode_pattern_indices,
                   nrepeats, ndarkframes, blank, pic_inds, bit_inds, ret_pic,
                   ret_bit, err, dmd_log, cm>>

NextValidate == Validate

SpecValidate == InitValidate /\ [][NextValidate]_vars

\* ============================================================ the claims
BaseOn == PatternSet(<<1>>, <<3>>)
BaseOff == PatternSet(<<1>>, <<4>>)

\* C1: after module initialisation every channel key of channel_map, "on"
\* and "off" included, defines the modes "default" and "off", so that the
\* dark-frame and blanking steps never fail to resolve a channel's "off".
C1_EveryChannelHasDefaultAndOff ==
    /\ Imported => \A c \in DOMAIN channel_map :
                       {"default", "off"} \subseteq DOMAIN channel_map[c]
    /\ ~(pc = "error" /\ err.exc = "KeyError" /\ err.at \in {"dark", "blank"})

\* C2 as stated: inverted channels have "widefield" and "off" on the base
\* "on" pattern and "on" on the base "off" pattern; non-inverted channels
\* have "widefield" and "on" on base "on" and "off" on base "off".
C2_AsStated ==
    Imported =>
        /\ \A c \in {"green", "odt"} :
              /\ channel_map[c]["widefield"] = BaseOn
              /\ channel_map[c]["off"] = BaseOn
              /\ channel_map[c]["on"] = BaseOff
        /\ \A c \in {"red", "blue"} :
              /\ channel_map[c]["widefield"] = BaseOn
              /\ channel_map[c]["on"] = BaseOn
              /\ channel_map[c]["off"] = BaseOff

\* C2 amended: for an inverted channel "off" is the base "on" pattern
\* (picture 1, bit 3) and both "on" and "widefield" are the base "off"
\* pattern (picture 1, bit 4); for a non-inverted channel "widefield" and
\* "on" are base "on" and "off" is base "off".
C2_InvertedAliases ==
    Imported =>
        /\ \A c \in {"green", "odt"} :
              /\ channel_map[c]["off"] = BaseOn
              /\ channel_map[c]["on"] = BaseOff
              /\ channel_map[c]["widefield"] = BaseOff
        /\ \A c \in {"red", "blue"} :
              /\ channel_map[c]["widefield"] = BaseOn
              /\ channel_map[c]["on"] = BaseOn
              /\ channel_map[c]["off"] = BaseOff

C2_Witness ==
    /\ Imported
    /\ "widefield" \in DOMAIN channel_map["odt"]
    /\ "widefield" \in DOMAIN channel_map["blue"]

\* a catalog defect in the sense of C3
ArrayDefect(md, k) ==
    \/ k \notin DOMAIN md
    \/ ~md[k].ndarray
    \/ md[k].ndim # 1

CatalogDefect(c) ==
    \E ch \in DOMAIN c :
        \/ "default" \notin DOMAIN c[ch]
        \/ \E m \in DOMAIN c[ch] :
              \/ ArrayDefect(c[ch][m], "picture_indices")
              \/ ArrayDefect(c[ch][m], "bit_indices")
              \/ c[ch][m]["picture_indices"].len # c[ch][m]["bit_indices"].len

\* C3: validate_channel_map returns False for every catalog with a missing
\* "default" mode, a missing or non-1-D index array, or index arrays of
\* different lengths in one mode, and True only without any such defect.
C3_ValidateRejectsDefects ==
    valid # None => (valid[1] <=> ~CatalogDefect(cm))

\* C4: each channel's post-repeat sequence is its selection of k patterns
\* repeated r times (length r * k, period k), and a repeat count of 0 gives
\* an empty sequence without an error.
C4_RepeatTiles ==
    /\ pc = "select" =>
          \A i \in 1..Len(pic_inds) :
              LET k == Len(mode_pattern_indices[i])
                  r == nrepeats[i]
              IN  /\ Len(pic_inds[i]) = r * k
                  /\ Len(bit_inds[i]) = r * k
                  /\ \A j \in (k + 1)..(r * k) :
                        /\ pic_inds[i][j] = pic_inds[i][j - k]
                        /\ bit_inds[i][j] = bit_inds[i][j - k]
    /\ ~(pc = "error" /\ err.at = "repeat" /\ nrepeats[Len(pic_inds) + 1] = 0)

\* C5: a channel whose selection went through has every requested index in
\* [0, npatterns); any other index, a negative one included, is an error.
C5_SubsetRangeChecked ==
    pc = "select" =>
        \A i \in 1..Len(pic_inds) :
            LET npatterns == Len(channel_map[channels[i]][modes[i]].picture_indices)
            IN  \A j \in 1..Len(mode_pattern_indices[i]) :
                    mode_pattern_indices[i][j] \in 0..(npatterns - 1)

\* C6: a call with an empty channels list (every other list empty) returns
\* an empty sequence pair; it never ends in an error.
C6_EmptyChannelsReturnEmpty ==
    /\ ~(channels = <<>> /\ pc = "error" /\ err.at = "hstack")
    /\ (channels = <<>> /\ pc = "stop") => (ret_pic = <<>> /\ ret_bit = <<>>)

\* number of frames of the channels before channel i
RECURSIVE Offset(_, _)
Offset(arrs, i) == IF i <= 1 THEN 0 ELSE Offset(arrs, i - 1) + Len(arrs[i - 1])

\* flat holds the arrays of arrs one after the other, in the order of arrs
JoinedInOrder(arrs, flat) ==
    /\ Len(flat) = Offset(arrs, Len(arrs) + 1)
    /\ \A i \in 1..Len(arrs) : \A j \in 1..Len(arrs[i]) :
          flat[Offset(arrs, i) + j] = arrs[i][j]

\* C7: for a request of N >= 1 channels the concatenation step succeeds and
\* returns picture and bit index arrays of equal length, the sum of the
\* channels' final lengths, holding the channels' final sequences in request
\* order.
C7_ConcatInRequestOrder ==
    [][(pc = "hstack" /\ Len(channels) >= 1) =>
          /\ pc' = "stop"
          /\ JoinedInOrder(pic_inds, ret_pic')
          /\ JoinedInOrder(bit_inds, ret_bit')
          /\ Len(ret_pic') = Len(ret_bit')]_vars

C7_Witness ==
    /\ pc = "stop"
    /\ Len(channels) = 2
    /\ channels[1] # channels[2]
    /\ Len(ret_pic) > 2

IsPrefix(s, t) == Len(s) <= Len(t) /\ \A i \in 1..Len(s) : s[i] = t[i]

\* C8: the device sees start_stop_sequence, get_trigger_in1, get_trigger_in2,
\* set_pattern_sequence in this order, each once in a completed run, never a
\* trigger-setting operation, and nothing at all when get_dmd_sequence raised.
C8_DeviceOrder ==
    LET order == <<"start_stop_sequence", "get_trigger_in1", "get_trigger_in2",
                   "set_pattern_sequence">>
    IN  /\ IsPrefix(dmd_log, order)
        /\ pc = "done" => dmd_log = order
        /\ pc = "error" => dmd_log = <<>>
        /\ pc \in {"select", "dark", "blank", "hstack"} => dmd_log = <<>>

C8_Witness ==
    /\ pc = "done"
    /\ Len(dmd_log) = 4
    /\ Len(ret_pic) > 0

\* C9: a channel with blank[i] set ends with twice the length L of its
\* pre-blank sequence, L = ndarkframes + r * k, the j-th pre-blank frame at
\* position 2j and the channel's "off" pattern at position 2j + 1; a channel
\* with blank[i] unset keeps its pre-blank sequence.
C9_BlankInterleave ==
    [][(pc = "blank" /\ pc' = "hstack") =>
          \A i \in 1..Len(channels) :
              LET L == Len(pic_inds[i])
                  off == channel_map[channels[i]]["off"]
              IN  /\ L = ndarkframes + nrepeats[i] * Len(mode_pattern_indices[i])
                  /\ Len(bit_inds[i]) = L
                  /\ blank[i] =>
                        /\ Len(pic_inds'[i]) = 2 * L
                        /\ Len(bit_inds'[i]) = 2 * L
                        /\ \A j \in 0..(L - 1) :
                              /\ pic_inds'[i][2 * j + 1] = pic_inds[i][j + 1]
                              /\ bit_inds'[i][2 * j + 1] = bit_inds[i][j + 1]
                              /\ pic_inds'[i][2 * j + 2] = off.picture_indices[1]
                              /\ bit_inds'[i][2 * j + 2] = off.bit_indices[1]
                  /\ ~blank[i] =>
                        /\ pic_inds'[i] = pic_inds[i]
                        /\ bit_inds'[i] = bit_inds[i]]_vars

C9_Witness ==
    /\ pc = "hstack"
    /\ Len(channels) = 2
    /\ blank = <<TRUE, FALSE>>
    /\ ndarkframes > 0
    /\ Len(pic_inds[1]) > 4

Copies(x, d) == [j \in 1..d |-> x]

\* C10: with ndarkframes = d > 0 each channel's pre-blank sequence is d
\* copies of that channel's own "off" pattern followed by its repeated
\* selection, once per channel; with d = 0 the step changes nothing.
C10_DarkPrefix ==
    [][(pc = "dark" /\ pc' = "blank") =>
          \A i \in 1..Len(channels) :
              LET off == channel_map[channels[i]]["off"]
                  d == ndarkframes
              IN  /\ Len(pic_inds[i]) = nrepeats[i] * Len(mode_pattern_indices[i])
                  /\ d > 0 =>
                        /\ pic_inds'[i] = Copies(off.picture_indices[1], d) \o pic_inds[i]
                        /\ bit_inds'[i] = Copies(off.bit_indices[1], d) \o bit_inds[i]
                  /\ d = 0 =>
                        /\ pic_inds'[i] = pic_inds[i]
                        /\ bit_inds'[i] = bit_inds[i]]_vars

C10_Witness ==
    /\ pc = "blank"
    /\ ndarkframes >= 2
    /\ Len(channels) = 2
    /\ channels[1] # channels[2]
    /\ Len(pic_inds[2]) > ndarkframes

====
